---- MODULE Spec2Model ----
(***************************************************************************)
(* Model of the ISweep backend decision engine (content_analyzer.py) and   *)
(* of the request layer around it (app.py, database.py).                   *)
(*                                                                         *)
(* A text is a sequence of whitespace separated tokens; a token is a run   *)
(* of word characters, so the regular expressions' \b...\b alternatives    *)
(* match a token exactly when the token, case folded, is one of the        *)
(* alternatives.  A preference record is a function from the field names   *)
(* that are present to their values (a Python dict).                       *)
(***************************************************************************)
EXTENDS Integers, Sequences, FiniteSets, TLC

VARIABLES
    text,               \* the text a caller of the engine holds
    preferences,        \* the preference record that caller holds
    result,             \* what the caller's last call of the engine returned
    users,              \* table users: id -> username
    user_preferences,   \* table user_preferences: user_id -> row
    response,           \* the last HTTP response, with the request it answers
    connections,        \* per caller of the Database: its call in progress
    frames              \* per caller of the shared analyzer: its call's frame

engine_vars == <<text, preferences, result, frames>>
store_vars == <<users, user_preferences>>
vars ==
    <<text, preferences, result, users, user_preferences, response, connections,
      frames>>

(***************************************************************************)
(* Bounds of the model.                                                    *)
(***************************************************************************)
\* the longest text, in tokens
MaxLen == 3

\* the most users the store holds
MaxUsers == 2

(***************************************************************************)
(* Python values.                                                          *)
(***************************************************************************)
None == "None"

\* the tokens texts are built from: a profane word, a sexual keyword in
\* capitals, a word of a sexual pattern that is also a violence keyword, and
\* a clean word that contains the violence keyword "kill"
Vocabulary == {"damn", "SEX", "assault", "skills"}

\* str.lower() on one token
Lower(w) == IF w = "SEX" THEN "sex" ELSE w

\* str.lower() on a text
RECURSIVE LowerText(_)
LowerText(ws) == IF ws = <<>> THEN <<>> ELSE <<Lower(Head(ws))>> \o LowerText(Tail(ws))

\* the lexicon of better_profanity, as far as the vocabulary goes
ProfaneWords == {"damn"}

(***************************************************************************)
(* ContentAnalyzer class constants.                                        *)
(***************************************************************************)
VIOLENCE_PATTERNS ==
    << {"kill", "killed", "murder", "shot", "shoot", "stab", "blood", "violence",
        "violent", "attack", "fight", "gun", "weapon"},
       {"death", "die", "dying", "dead"},
       {"assault", "beat", "beating", "punch", "hit"} >>

SEXUAL_PATTERNS ==
    << {"sex", "sexual", "naked", "nude", "explicit"},
       {"rape", "assault", "abuse"},
       {"intercourse", "seduce", "seduction"} >>

\* SENSITIVITY_THRESHOLDS with the values of low and high exchanged
SENSITIVITY_THRESHOLDS_Inverted == [low |-> 1, medium |-> 2, high |-> 5]

SENSITIVITY_THRESHOLDS == [low |-> 5, medium |-> 2, high |-> 1]

\* SENSITIVITY_ACTIONS with a low row that lasts no time
SENSITIVITY_ACTIONS_ZeroLow ==
    [low    |-> <<"mute", 0>>,
     medium |-> <<"fast_forward", 10>>,
     high   |-> <<"skip", 15>>]

SENSITIVITY_ACTIONS ==
    [low    |-> <<"mute", 5>>,
     medium |-> <<"fast_forward", 10>>,
     high   |-> <<"skip", 15>>]

SEXUAL_KEYWORDS ==
    <<"sex", "sexual", "naked", "nude", "explicit", "rape", "intercourse",
      "seduce", "seduction">>

VIOLENCE_KEYWORDS ==
    <<"kill", "killed", "murder", "shot", "shoot", "stab", "blood", "violence",
      "violent", "attack", "fight", "gun", "weapon", "death", "die", "dying",
      "dead", "assault", "beat", "beating", "punch", "hit">>

(***************************************************************************)
(* dict.get(key, default)                                                  *)
(***************************************************************************)
Get(d, k, default) == IF k \in DOMAIN d THEN d[k] ELSE default

\* SENSITIVITY_THRESHOLDS.get(preferences.get(key, 'medium'), 2)
Threshold(prefs, key) ==
    Get(SENSITIVITY_THRESHOLDS, Get(prefs, key, "medium"), 2)

(***************************************************************************)
(* Keyword / pattern matcher.                                              *)
(***************************************************************************)
\* len(re.findall(r'\b(a|b|...)\b', text, re.IGNORECASE)) for one pattern
RECURSIVE FindAll(_, _)
FindAll(alternatives, ws) ==
    IF ws = <<>> THEN 0
    ELSE (IF Lower(Head(ws)) \in alternatives THEN 1 ELSE 0)
         + FindAll(alternatives, Tail(ws))

\* _count_whole_words
RECURSIVE CountWholeWords(_, _)
CountWholeWords(ws, words) ==
    IF words = <<>> THEN 0
    ELSE FindAll({Head(words)}, ws) + CountWholeWords(ws, Tail(words))

\* the pattern loop of _check_sexual_content and _check_violence
RECURSIVE PatternMatches(_, _)
PatternMatches(ws, patterns) ==
    IF patterns = <<>> THEN 0
    ELSE FindAll(Head(patterns), ws) + PatternMatches(ws, Tail(patterns))

\* profanity.contains_profanity(word) for one token
ContainsProfanity(w) == Lower(w) \in ProfaneWords

\* _check_language
CheckLanguage(ws) ==
    IF \E i \in 1..Len(ws) : ContainsProfanity(ws[i])
    THEN Cardinality({i \in 1..Len(ws) : ContainsProfanity(ws[i])})
    ELSE 0

\* _check_sexual_content without the keyword count
CheckSexualContent_PatternsOnly(ws) == PatternMatches(ws, SEXUAL_PATTERNS)

\* _check_sexual_content
CheckSexualContent(ws) ==
    CountWholeWords(ws, SEXUAL_KEYWORDS) + PatternMatches(ws, SEXUAL_PATTERNS)

\* _check_violence
CheckViolence(ws) ==
    CountWholeWords(ws, VIOLENCE_KEYWORDS) + PatternMatches(ws, VIOLENCE_PATTERNS)

\* all sequences over S of length at most n
RECURSIVE SeqsUpTo(_, _)
SeqsUpTo(S, n) ==
    IF n = 0 THEN {<<>>}
    ELSE LET shorter == SeqsUpTo(S, n - 1)
         IN  shorter \cup {Append(ws, w) : ws \in shorter, w \in S}

\* the lowercased texts of the model
LowerTexts == SeqsUpTo({Lower(w) : w \in Vocabulary}, MaxLen)

\* the three scores of every lowercased text, computed once: what
\* self._check_language(text_lower), self._check_sexual_content(text_lower)
\* and self._check_violence(text_lower) return
language_severity == [ws \in LowerTexts |-> CheckLanguage(ws)]
sexual_severity == [ws \in LowerTexts |-> CheckSexualContent(ws)]
violence_severity == [ws \in LowerTexts |-> CheckViolence(ws)]

(***************************************************************************)
(* Decision engine.                                                        *)
(***************************************************************************)
\* "not text": None and the empty string are falsy
NotText(t) == t.kind = "None" \/ t.words = <<>>

\* analyze with the sexual check moved before the language check
analyze_SexualFirst(t, prefs) ==
    IF NotText(t) THEN "none"
    ELSE LET text_lower == LowerText(t.words)
         IN  IF Get(prefs, "sexual_content_filter", TRUE)
                /\ sexual_severity[text_lower]
                     >= Threshold(prefs, "sexual_content_sensitivity")
             THEN "skip"
             ELSE IF Get(prefs, "language_filter", TRUE)
                     /\ language_severity[text_lower]
                          >= Threshold(prefs, "language_sensitivity")
             THEN "mute"
             ELSE IF Get(prefs, "violence_filter", TRUE)
                     /\ violence_severity[text_lower]
                          >= Threshold(prefs, "violence_sensitivity")
             THEN "fast_forward"
             ELSE "none"

\* ContentAnalyzer.analyze
analyze(t, prefs) ==
    IF NotText(t) THEN "none"
    ELSE LET text_lower == LowerText(t.words)
         IN  IF Get(prefs, "language_filter", TRUE)
                /\ language_severity[text_lower] >= Threshold(prefs, "language_sensitivity")
             THEN "mute"
             ELSE IF Get(prefs, "sexual_content_filter", TRUE)
                     /\ sexual_severity[text_lower]
                          >= Threshold(prefs, "sexual_content_sensitivity")
             THEN "skip"
             ELSE IF Get(prefs, "violence_filter", TRUE)
                     /\ violence_severity[text_lower]
                          >= Threshold(prefs, "violence_sensitivity")
             THEN "fast_forward"
             ELSE "none"

\* base_decision with the string 'none' where the category is None
base_decision_StringNone(reason) ==
    [action |-> "none", duration_seconds |-> 0, matched_category |-> "none",
     reason |-> reason]

\* base_decision
base_decision(reason) ==
    [action |-> "none", duration_seconds |-> 0, matched_category |-> None,
     reason |-> reason]

\* the string "No match", as a reason of one part
NoMatch == << <<"No match">> >>

\* the severities dict with the sexual score taken whatever the filter says
Severities_SexualUnfiltered(t, prefs) ==
    LET text_lower == LowerText(t.words)
    IN  [language |-> IF Get(prefs, "language_filter", TRUE)
                      THEN language_severity[text_lower] ELSE 0,
         sexual   |-> sexual_severity[text_lower],
         violence |-> IF Get(prefs, "violence_filter", TRUE)
                      THEN violence_severity[text_lower] ELSE 0]

\* the severities dict of analyze_decision
Severities(t, prefs) ==
    LET text_lower == LowerText(t.words)
    IN  [language |-> IF Get(prefs, "language_filter", TRUE)
                      THEN language_severity[text_lower] ELSE 0,
         sexual   |-> IF Get(prefs, "sexual_content_filter", TRUE)
                      THEN sexual_severity[text_lower] ELSE 0,
         violence |-> IF Get(prefs, "violence_filter", TRUE)
                      THEN violence_severity[text_lower] ELSE 0]

\* f"{category}_sensitivity"
SensitivityKey(category) ==
    CASE category = "language" -> "language_sensitivity"
      [] category = "sexual"   -> "sexual_sensitivity"
      [] category = "violence" -> "violence_sensitivity"

\* passed(category)
passed(category, severities, prefs) ==
    severities[category] >= Threshold(prefs, SensitivityKey(category))

\* the body of the loop of analyze_decision for a category that passed
MatchDecision(category, severities, prefs, confidence) ==
    LET sensitivity == Get(prefs, SensitivityKey(category), "medium")
        ad == Get(SENSITIVITY_ACTIONS, sensitivity, SENSITIVITY_ACTIONS["medium"])
        reason_parts == << <<"content detected", category>>,
                           <<"sensitivity", sensitivity>>,
                           <<"severity", severities[category]>> >>
    IN  [action |-> ad[1], duration_seconds |-> ad[2],
         matched_category |-> category,
         reason |-> IF confidence # None
                    THEN Append(reason_parts, <<"confidence", confidence>>)
                    ELSE reason_parts]

\* the order analyze_decision visits the categories in
DecisionOrder == <<"sexual", "violence", "language">>

\* the for loop of analyze_decision over the categories still to visit
RECURSIVE DecisionLoop(_, _, _, _)
DecisionLoop(categories, severities, prefs, confidence) ==
    IF categories = <<>> THEN base_decision(NoMatch)
    ELSE IF ~passed(Head(categories), severities, prefs)
         THEN DecisionLoop(Tail(categories), severities, prefs, confidence)
         ELSE MatchDecision(Head(categories), severities, prefs, confidence)

\* ContentAnalyzer.analyze_decision
analyze_decision(t, prefs, confidence) ==
    IF NotText(t) THEN base_decision(NoMatch)
    ELSE DecisionLoop(DecisionOrder, Severities(t, prefs), prefs, confidence)


(***************************************************************************)
(* The inputs of a call of the engine.                                     *)
(***************************************************************************)
FilterFields == {"language_filter", "sexual_content_filter", "violence_filter"}

SensitivityFields ==
    {"language_sensitivity", "sexual_content_sensitivity", "violence_sensitivity"}

\* the three valid sensitivities and a value that is none of them
SensitivityValues == {"low", "medium", "high", "extreme"}

\* the dicts a caller passes: all six fields (what a row of the store gives),
\* the filters alone, the sensitivities alone, or no field at all
PreferenceRecords ==
    UNION { { f @@ s : f \in [F -> BOOLEAN], s \in [S -> SensitivityValues] } :
            <<F, S>> \in {FilterFields, {}} \X {SensitivityFields, {}} }

NoneText == [kind |-> "None", words |-> <<>>]

Str(ws) == [kind |-> "str", words |-> ws]

Texts == {NoneText} \cup {Str(ws) : ws \in SeqsUpTo(Vocabulary, MaxLen)}

Confidences == {None, "0.9"}

NoResult == [op |-> "idle", action |-> None, decision |-> None, confidence |-> None]

\* no call of the shared analyzer is in progress
NoFrames == [c \in {} |-> None]

(***************************************************************************)
(* The store (database.py).                                                *)
(***************************************************************************)
\* the column defaults of table user_preferences; SQLite's 1 and 0 of the
\* BOOLEAN columns are written as their truth values
DefaultPreferences ==
    [language_filter |-> TRUE, sexual_content_filter |-> TRUE,
     violence_filter |-> TRUE, language_sensitivity |-> "medium",
     sexual_content_sensitivity |-> "medium", violence_sensitivity |-> "medium"]

EmptyTable == [id \in {} |-> None]

\* no caller has opened a connection
NoConnections == [c \in {} |-> None]

\* Database.get_user_by_id: falsy when no row has the id
UserExists(user_id) == user_id \in DOMAIN users

\* a read that returns the column defaults instead of the stored row
get_user_preferences_Defaults(user_id) ==
    IF user_id \in DOMAIN user_preferences
    THEN ("user_id" :> user_id) @@ DefaultPreferences
    ELSE None

\* Database.get_user_preferences: dict(row), the column user_id included
get_user_preferences(user_id) ==
    IF user_id \in DOMAIN user_preferences
    THEN ("user_id" :> user_id) @@ user_preferences[user_id]
    ELSE None

\* cursor.lastrowid of the INSERT INTO users of an AUTOINCREMENT table that
\* never loses a row
NextUserId == Cardinality(DOMAIN users) + 1

\* the allowed_fields of Database.update_user_preferences
allowed_fields ==
    {"language_filter", "sexual_content_filter", "violence_filter",
     "language_sensitivity", "sexual_content_sensitivity", "violence_sensitivity"}

\* an update that puts the fields it was not handed back to their defaults
UpdatedRow_ResetOthers(row, data) ==
    [k \in DOMAIN row |-> IF k \in DOMAIN data THEN data[k] ELSE DefaultPreferences[k]]

\* the row after UPDATE user_preferences SET <the allowed fields of data>
UpdatedRow(row, data) ==
    [k \in DOMAIN row |-> IF k \in DOMAIN data THEN data[k] ELSE row[k]]

(***************************************************************************)
(* The engine as a state machine: a caller holds a text and a preference   *)
(* record and calls one of the two entry points any number of times.       *)
(***************************************************************************)
Init ==
    /\ text \in Texts
    /\ preferences \in PreferenceRecords
    /\ result = NoResult
    /\ users = EmptyTable
    /\ user_preferences = EmptyTable
    /\ response = [route |-> "none"]
    /\ connections = NoConnections
    /\ frames = NoFrames

Analyze ==
    /\ result' = [op |-> "analyze", action |-> analyze(text, preferences),
                  decision |-> None, confidence |-> None]
    /\ UNCHANGED <<text, preferences, users, user_preferences, response, connections,
                 frames>>

AnalyzeDecision ==
    \E confidence \in Confidences :
        /\ result' = [op |-> "analyze_decision", action |-> None,
                      decision |-> analyze_decision(text, preferences, confidence),
                      confidence |-> confidence]
        /\ UNCHANGED <<text, preferences, users, user_preferences, response, connections,
                 frames>>

Next == Analyze \/ AnalyzeDecision

Spec == Init /\ [][Next]_vars

(***************************************************************************)
(* The request layer (app.py) over the store: every handler is one step,   *)
(* from the request to the response.                                       *)
(***************************************************************************)
Usernames == {"ann", "bob"}

\* the ids requests name: those the store can hold and one it never holds
RequestIds == 1..(MaxUsers + 1)

EmptyBody == [k \in {} |-> None]

\* JSON bodies of POST /api/users
CreateBodies == {EmptyBody} \cup {[username |-> u] : u \in Usernames}

\* JSON bodies of PUT /api/users/<id>/preferences
UpdateBodies ==
    { EmptyBody,
      [language_filter |-> FALSE, sexual_content_filter |-> FALSE,
       violence_filter |-> FALSE],
      [sexual_content_sensitivity |-> "high"],
      [violence_sensitivity |-> "low", language_filter |-> TRUE],
      [language_sensitivity |-> "extreme", violence_filter |-> FALSE],
      [theme |-> "dark"] }

\* the texts of the requests: one that reaches the sexual threshold of a
\* default user next to violence and language words, and a clean one
RequestTexts == {Str(<<"SEX", "assault", "damn">>), Str(<<"skills">>)}

\* JSON bodies of POST /api/analyze and POST /event
AnalyzeBodies ==
    {EmptyBody}
        \cup {[text |-> t] : t \in RequestTexts}
        \cup {[user_id |-> id] : id \in RequestIds}
        \cup {[user_id |-> id, text |-> t] : id \in RequestIds, t \in RequestTexts}

\* jsonify(body), status together with the request answered
Respond(route, request, status, body) ==
    [route |-> route, request |-> request, status |-> status, body |-> body]

\* "not data": a missing or an empty JSON object is falsy
NotData(data) == DOMAIN data = {}

\* a users table without the UNIQUE constraint
IntegrityError_Never(username) == FALSE

\* sqlite3.IntegrityError of INSERT INTO users: username is UNIQUE
IntegrityError(username) == \E id \in DOMAIN users : users[id] = username

\* GET /api/health: health_check
HealthCheckRequest ==
    /\ response' = Respond("/api/health", EmptyBody, 200,
                           [status |-> "healthy", service |-> "ISweep Backend",
                            version |-> "1.0.0"])
    /\ UNCHANGED <<engine_vars, store_vars, connections>>

\* POST /api/users: create_user with Database.create_user; the model stops
\* creating users at MaxUsers rows
CreateUserRequest ==
    \E data \in CreateBodies :
        /\ IF NotData(data) \/ "username" \notin DOMAIN data
           THEN /\ response' = Respond("/api/users", data, 400,
                                       [error |-> "Username is required"])
                /\ UNCHANGED store_vars
           ELSE IF IntegrityError(data.username)
           THEN /\ response' = Respond("/api/users", data, 409,
                                       [error |-> "Username already exists"])
                /\ UNCHANGED store_vars
           ELSE /\ Cardinality(DOMAIN users) < MaxUsers
                /\ users' = (NextUserId :> data.username) @@ users
                /\ user_preferences' =
                       (NextUserId :> DefaultPreferences) @@ user_preferences
                /\ response' = Respond("/api/users", data, 201,
                                       [user_id |-> NextUserId,
                                        username |-> data.username,
                                        preferences |->
                                            ("user_id" :> NextUserId)
                                                @@ DefaultPreferences])
        /\ UNCHANGED <<engine_vars, connections>>

\* GET /api/users/<id>/preferences: get_preferences
GetPreferencesRequest ==
    \E user_id \in RequestIds :
        /\ response' =
               IF ~UserExists(user_id)
               THEN Respond("/api/users/<id>/preferences", [user_id |-> user_id],
                            404, [error |-> "User not found"])
               ELSE Respond("/api/users/<id>/preferences", [user_id |-> user_id],
                            200, get_user_preferences(user_id))
        /\ UNCHANGED <<engine_vars, store_vars, connections>>

\* a validation that lets an unrecognized value through
valid_sensitivities_AnyValue == {"low", "medium", "high", "extreme"}

\* the valid_sensitivities of update_preferences
valid_sensitivities == {"low", "medium", "high"}

\* the validation loop of update_preferences
InvalidSensitivity(data) ==
    \E field \in {"language_sensitivity", "sexual_content_sensitivity",
                  "violence_sensitivity"} :
        field \in DOMAIN data /\ data[field] \notin valid_sensitivities

\* Database.update_user_preferences: whether it returns True
UpdateSucceeds(user_id, data) ==
    /\ allowed_fields \cap DOMAIN data # {}
    /\ user_id \in DOMAIN user_preferences

\* PUT /api/users/<id>/preferences: update_preferences with
\* Database.update_user_preferences
UpdatePreferencesRequest ==
    \E user_id \in RequestIds, data \in UpdateBodies :
        LET request == [user_id |-> user_id, data |-> data]
            route == "PUT /api/users/<id>/preferences"
        IN  /\ IF ~UserExists(user_id)
               THEN /\ response' = Respond(route, request, 404,
                                           [error |-> "User not found"])
                    /\ UNCHANGED store_vars
               ELSE IF NotData(data)
               THEN /\ response' = Respond(route, request, 400,
                                           [error |-> "Request body is required"])
                    /\ UNCHANGED store_vars
               ELSE IF InvalidSensitivity(data)
               THEN /\ response' = Respond(route, request, 400,
                                           [error |-> "Invalid sensitivity"])
                    /\ UNCHANGED store_vars
               ELSE IF ~UpdateSucceeds(user_id, data)
               THEN /\ response' = Respond(route, request, 500,
                                           [error |-> "Failed to update preferences"])
                    /\ UNCHANGED store_vars
               ELSE /\ user_preferences' =
                           [user_preferences EXCEPT
                               ![user_id] = UpdatedRow(@, data)]
                    /\ users' = users
                    /\ response' =
                           Respond(route, request, 200,
                                   [message |-> "Preferences updated successfully",
                                    preferences |->
                                        ("user_id" :> user_id)
                                            @@ UpdatedRow(user_preferences[user_id],
                                                          data)])
            /\ UNCHANGED <<engine_vars, connections>>

\* POST /api/analyze: analyze_content
AnalyzeContentRequest ==
    \E data \in AnalyzeBodies :
        /\ response' =
               IF NotData(data) \/ "user_id" \notin DOMAIN data
                     \/ "text" \notin DOMAIN data
               THEN Respond("/api/analyze", data, 400,
                            [error |-> "user_id and text are required"])
               ELSE IF ~UserExists(data.user_id)
               THEN Respond("/api/analyze", data, 404, [error |-> "User not found"])
               ELSE Respond("/api/analyze", data, 200,
                            [action |-> analyze(data.text,
                                                get_user_preferences(data.user_id)),
                             text |-> data.text,
                             user_id |-> data.user_id])
        /\ UNCHANGED <<engine_vars, store_vars, connections>>

\* POST /event: the application has no rule for this path, so the request
\* ends in the 404 error handler not_found
EventRequest ==
    \E data \in AnalyzeBodies :
        /\ response' = Respond("/event", data, 404, [error |-> "Endpoint not found"])
        /\ UNCHANGED <<engine_vars, store_vars, connections>>

InitApi ==
    /\ text = NoneText
    /\ preferences = EmptyBody
    /\ result = NoResult
    /\ users = EmptyTable
    /\ user_preferences = EmptyTable
    /\ response = [route |-> "none"]
    /\ connections = NoConnections
    /\ frames = NoFrames

NextApi ==
    \/ HealthCheckRequest
    \/ CreateUserRequest
    \/ GetPreferencesRequest
    \/ UpdatePreferencesRequest
    \/ AnalyzeContentRequest
    \/ EventRequest

SpecApi == InitApi /\ [][NextApi]_vars

(***************************************************************************)
(* The Database (database.py) under concurrent callers.  Every method      *)
(* opens a connection of its own.  sqlite3 begins a transaction before     *)
(* the first INSERT or UPDATE of a connection and the statement takes the  *)
(* database's write lock, which the connection holds until it commits or   *)
(* closes; closing without a commit rolls the transaction back.  A writer  *)
(* that finds the lock taken waits for it.  The tables users and           *)
(* user_preferences hold the committed rows, which is what every other     *)
(* connection reads; the rows a transaction has inserted and not yet       *)
(* committed are in the record of its connection.                          *)
(***************************************************************************)
Callers == {"a", "b"}

\* the preferences arguments of update_user_preferences
Updates ==
    { [language_filter |-> FALSE, violence_sensitivity |-> "high"],
      [violence_filter |-> FALSE, theme |-> "dark"],
      [theme |-> "dark"] }

\* a caller that has not called yet
IdleConnection ==
    [pc |-> "idle", op |-> "none", username |-> None, fresh |-> FALSE,
     user_id |-> 0, data |-> EmptyBody, returned |-> "pending"]

\* the write lock is not held by another connection
WriteLockFree(c) ==
    \A d \in Callers \ {c} :
        connections[d].pc \notin {"user_inserted", "preferences_inserted"}

\* return value: the call is over and its connection closed
Return(c, value) ==
    [connections EXCEPT ![c].pc = "idle", ![c].returned = value]

\* create_user(username) is called: get_connection
CallCreateUser(c) ==
    \E username \in Usernames :
        /\ connections[c].pc = "idle"
        /\ connections' =
               [connections EXCEPT
                   ![c] = [pc |-> "connected", op |-> "create_user",
                           username |-> username,
                           fresh |-> ~IntegrityError(username),
                           user_id |-> 0, data |-> EmptyBody,
                           returned |-> "pending"]]
        /\ UNCHANGED <<engine_vars, store_vars, response>>

\* INSERT INTO users committed at once, outside a transaction
InsertUser_Autocommit(c) ==
    /\ connections[c].pc = "connected"
    /\ connections[c].op = "create_user"
    /\ WriteLockFree(c)
    /\ IF IntegrityError(connections[c].username)
       THEN connections' = Return(c, "None") /\ UNCHANGED store_vars
       ELSE /\ Cardinality(DOMAIN users) < MaxUsers
            /\ connections' = [connections EXCEPT ![c].pc = "user_inserted",
                                                  ![c].user_id = NextUserId]
            /\ users' = (NextUserId :> connections[c].username) @@ users
            /\ user_preferences' = user_preferences
    /\ UNCHANGED <<engine_vars, response>>

\* INSERT INTO users inside the transaction it begins, and cursor.lastrowid;
\* an IntegrityError ends the call with None. The model stops inserting
\* users at MaxUsers rows
InsertUser(c) ==
    /\ connections[c].pc = "connected"
    /\ connections[c].op = "create_user"
    /\ WriteLockFree(c)
    /\ IF IntegrityError(connections[c].username)
       THEN connections' = Return(c, "None")
       ELSE /\ Cardinality(DOMAIN users) < MaxUsers
            /\ connections' = [connections EXCEPT ![c].pc = "user_inserted",
                                                  ![c].user_id = NextUserId]
    /\ UNCHANGED <<engine_vars, store_vars, response>>

\* INSERT INTO user_preferences (user_id): user_id is the primary key
InsertPreferences(c) ==
    /\ connections[c].pc = "user_inserted"
    /\ connections' =
           IF connections[c].user_id \in DOMAIN user_preferences
           THEN Return(c, "None")
           ELSE [connections EXCEPT ![c].pc = "preferences_inserted"]
    /\ UNCHANGED <<engine_vars, store_vars, response>>

\* conn.commit() and return user_id
Commit(c) ==
    /\ connections[c].pc = "preferences_inserted"
    /\ users' = (connections[c].user_id :> connections[c].username) @@ users
    /\ user_preferences' =
           (connections[c].user_id :> DefaultPreferences) @@ user_preferences
    /\ connections' = Return(c, "id")
    /\ UNCHANGED <<engine_vars, response>>

\* update_user_preferences(user_id, preferences) is called: get_connection
CallUpdateUserPreferences(c) ==
    \E user_id \in RequestIds, data \in Updates :
        /\ connections[c].pc = "idle"
        /\ connections' =
               [connections EXCEPT
                   ![c] = [pc |-> "connected", op |-> "update_user_preferences",
                           username |-> None, fresh |-> FALSE,
                           user_id |-> user_id, data |-> data,
                           returned |-> "pending"]]
        /\ UNCHANGED <<engine_vars, store_vars, response>>

\* the body of update_user_preferences: False without a statement when
\* preferences has no allowed field, else UPDATE, commit and rowcount > 0
UpdateUserPreferences(c) ==
    LET user_id == connections[c].user_id
        data == connections[c].data
    IN  /\ connections[c].pc = "connected"
        /\ connections[c].op = "update_user_preferences"
        /\ IF allowed_fields \cap DOMAIN data = {}
           THEN /\ connections' = Return(c, "False")
                /\ UNCHANGED store_vars
           ELSE /\ WriteLockFree(c)
                /\ IF UpdateSucceeds(user_id, data)
                   THEN /\ user_preferences' =
                               [user_preferences EXCEPT
                                   ![user_id] = UpdatedRow(@, data)]
                        /\ users' = users
                        /\ connections' = Return(c, "True")
                   ELSE /\ connections' = Return(c, "False")
                        /\ UNCHANGED store_vars
        /\ UNCHANGED <<engine_vars, response>>

InitDb ==
    /\ text = NoneText
    /\ preferences = EmptyBody
    /\ result = NoResult
    /\ users = EmptyTable
    /\ user_preferences = EmptyTable
    /\ response = [route |-> "none"]
    /\ connections = [c \in Callers |-> IdleConnection]
    /\ frames = NoFrames

NextDb ==
    \E c \in Callers :
        \/ CallCreateUser(c)
        \/ InsertUser(c)
        \/ InsertPreferences(c)
        \/ Commit(c)
        \/ CallUpdateUserPreferences(c)
        \/ UpdateUserPreferences(c)

SpecDb == InitDb /\ [][NextDb]_vars

(***************************************************************************)
(* The one analyzer instance of the application (get_analyzer) under       *)
(* concurrent calls.  The instance has no fields; a call keeps text_lower  *)
(* and severities in the locals of its own frame and reads the class       *)
(* constants, which nothing writes.  A call is split at the points where   *)
(* a local is written and later read, and the calls of two callers         *)
(* interleave at those points.                                             *)
(***************************************************************************)
\* the arguments of the concurrent calls
CallTexts == {NoneText, Str(<<"SEX">>), Str(<<"assault", "damn">>)}

CallPreferences ==
    { DefaultPreferences,
      [language_filter |-> TRUE, sexual_content_filter |-> TRUE,
       violence_filter |-> TRUE, language_sensitivity |-> "high",
       sexual_content_sensitivity |-> "high", violence_sensitivity |-> "high"] }

\* a caller with no call made
IdleFrame ==
    [op |-> "none", text |-> NoneText, preferences |-> EmptyBody,
     confidence |-> None, pc |-> "idle", text_lower |-> <<>>,
     severities |-> [language |-> 0, sexual |-> 0, violence |-> 0],
     action |-> None, decision |-> None, interleaved |-> FALSE]

\* one place for the locals of every call, as instance fields would be
Frame_Shared(c) == "a"

\* the frame that holds the locals of caller c's call: its own
Frame(c) == c

\* the other caller is inside a call
Overlaps(c) == \E d \in DOMAIN frames \ {c} : frames[d].pc # "idle"

\* the fixed actions of analyze
AnalyzeAction ==
    [language |-> "mute", sexual |-> "skip", violence |-> "fast_forward"]

\* one of the three guarded checks of analyze: the filter is on and the
\* score of text_lower reaches the threshold
CategoryTriggers(category, text_lower, prefs) ==
    CASE category = "language" ->
            /\ Get(prefs, "language_filter", TRUE)
            /\ language_severity[text_lower] >= Threshold(prefs, "language_sensitivity")
      [] category = "sexual" ->
            /\ Get(prefs, "sexual_content_filter", TRUE)
            /\ sexual_severity[text_lower]
                 >= Threshold(prefs, "sexual_content_sensitivity")
      [] category = "violence" ->
            /\ Get(prefs, "violence_filter", TRUE)
            /\ violence_severity[text_lower] >= Threshold(prefs, "violence_sensitivity")

\* a caller calls analyze(text, user_preferences) or
\* analyze_decision(text, preferences, confidence) on the shared instance
Call(c) ==
    \E op \in {"analyze", "analyze_decision"}, t \in CallTexts,
       prefs \in CallPreferences, confidence \in Confidences :
        /\ frames[c].pc = "idle"
        /\ op = "analyze" => confidence = None
        /\ frames' =
               [frames EXCEPT
                   ![c] = [IdleFrame EXCEPT
                              !.op = op, !.text = t, !.preferences = prefs,
                              !.confidence = confidence, !.pc = "entered",
                              !.interleaved = Overlaps(c)]]
        /\ UNCHANGED <<text, preferences, result, store_vars, response, connections>>

\* "if not text: return ..." and "text_lower = text.lower()"
Enter(c) ==
    /\ frames[c].pc = "entered"
    /\ frames' =
           IF NotText(frames[c].text)
           THEN [frames EXCEPT
                    ![c].pc = "idle",
                    ![c].action = IF frames[c].op = "analyze" THEN "none" ELSE None,
                    ![c].decision = IF frames[c].op = "analyze" THEN None
                                    ELSE base_decision(NoMatch),
                    ![c].interleaved = @ \/ Overlaps(c)]
           ELSE [frames EXCEPT
                    ![Frame(c)].text_lower = LowerText(frames[c].text.words),
                    ![c].pc = IF frames[c].op = "analyze" THEN "language"
                              ELSE "severities",
                    ![c].interleaved = @ \/ Overlaps(c)]
    /\ UNCHANGED <<text, preferences, result, store_vars, response, connections>>

\* analyze: the check of the category the call has come to
CheckCategory(c) ==
    LET category == frames[c].pc
        following == [language |-> "sexual", sexual |-> "violence",
                      violence |-> "idle"]
    IN  /\ frames[c].op = "analyze"
        /\ category \in {"language", "sexual", "violence"}
        /\ frames' =
               IF CategoryTriggers(category, frames[Frame(c)].text_lower,
                                   frames[c].preferences)
               THEN [frames EXCEPT ![c].pc = "idle",
                                   ![c].action = AnalyzeAction[category],
                                   ![c].interleaved = @ \/ Overlaps(c)]
               ELSE [frames EXCEPT ![c].pc = following[category],
                                   ![c].action = IF category = "violence"
                                                 THEN "none" ELSE @,
                                   ![c].interleaved = @ \/ Overlaps(c)]
        /\ UNCHANGED <<text, preferences, result, store_vars, response, connections>>

\* analyze_decision: severities = {...}
ComputeSeverities(c) ==
    /\ frames[c].op = "analyze_decision"
    /\ frames[c].pc = "severities"
    /\ frames' =
           [frames EXCEPT
               ![Frame(c)].severities =
                   Severities(Str(frames[Frame(c)].text_lower), frames[c].preferences),
               ![c].pc = "loop",
               ![c].interleaved = @ \/ Overlaps(c)]
    /\ UNCHANGED <<text, preferences, result, store_vars, response, connections>>

\* analyze_decision: the loop over the categories, to its return
Loop(c) ==
    /\ frames[c].op = "analyze_decision"
    /\ frames[c].pc = "loop"
    /\ frames' =
           [frames EXCEPT
               ![c].pc = "idle",
               ![c].decision =
                   DecisionLoop(DecisionOrder, frames[Frame(c)].severities,
                                frames[c].preferences, frames[c].confidence),
               ![c].interleaved = @ \/ Overlaps(c)]
    /\ UNCHANGED <<text, preferences, result, store_vars, response, connections>>

InitCalls ==
    /\ text = NoneText
    /\ preferences = EmptyBody
    /\ result = NoResult
    /\ users = EmptyTable
    /\ user_preferences = EmptyTable
    /\ response = [route |-> "none"]
    /\ connections = NoConnections
    /\ frames = [c \in Callers |-> IdleFrame]

NextCalls ==
    \E c \in Callers :
        \/ Call(c)
        \/ Enter(c)
        \/ CheckCategory(c)
        \/ ComputeSeverities(c)
        \/ Loop(c)

SpecCalls == InitCalls /\ [][NextCalls]_vars

(***************************************************************************)
(* The vocabulary of the properties: the categories, the fields of a       *)
(* preference record that belong to each, and the thresholds and the       *)
(* action table as the specification states them.                          *)
(***************************************************************************)
Categories == {"language", "sexual", "violence"}

FilterField(c) ==
    CASE c = "language" -> "language_filter"
      [] c = "sexual"   -> "sexual_content_filter"
      [] c = "violence" -> "violence_filter"

SensitivityField(c) ==
    CASE c = "language" -> "language_sensitivity"
      [] c = "sexual"   -> "sexual_content_sensitivity"
      [] c = "violence" -> "violence_sensitivity"

\* the category's filter is on (a missing filter field counts as on)
Enabled(prefs, c) ==
    FilterField(c) \in DOMAIN prefs => prefs[FilterField(c)]

\* the category's filter is present and off
Disabled(prefs, c) ==
    FilterField(c) \in DOMAIN prefs /\ ~prefs[FilterField(c)]

\* the category's sensitivity, "missing" when the record has none
StatedSensitivity(prefs, c) ==
    IF SensitivityField(c) \in DOMAIN prefs THEN prefs[SensitivityField(c)]
    ELSE "missing"

StatedThreshold(s) ==
    CASE s = "low" -> 5 [] s = "medium" -> 2 [] s = "high" -> 1 [] OTHER -> 2

StatedRow(s) ==
    CASE s = "low"    -> <<"mute", 5>>
      [] s = "medium" -> <<"fast_forward", 10>>
      [] s = "high"   -> <<"skip", 15>>
      [] OTHER        -> <<"fast_forward", 10>>

\* the matcher's score of a text for a category
Score(c, ws) ==
    CASE c = "language" -> language_severity[LowerText(ws)]
      [] c = "sexual"   -> sexual_severity[LowerText(ws)]
      [] c = "violence" -> violence_severity[LowerText(ws)]

NonEmpty(t) == t.kind = "str" /\ t.words # <<>>

\* the category is enabled and the text's score reaches its stated threshold
Breaches(t, prefs, c) ==
    /\ NonEmpty(t)
    /\ Enabled(prefs, c)
    /\ Score(c, t.words) >= StatedThreshold(StatedSensitivity(prefs, c))

NoMatchDecision ==
    [action |-> "none", duration_seconds |-> 0, matched_category |-> None,
     reason |-> << <<"No match">> >>]

Called == result.op # "idle"

\* what the last call returned, and what the same entry point returns for
\* another text or another preference record
Returned == IF result.op = "analyze" THEN result.action ELSE result.decision

Returns(t, prefs) ==
    IF result.op = "analyze" THEN analyze(t, prefs)
    ELSE analyze_decision(t, prefs, result.confidence)

\* the last call triggered an action
Triggered ==
    IF result.op = "analyze" THEN result.action # "none"
    ELSE result.decision.action # "none"

TriggersWith(t, prefs) ==
    IF result.op = "analyze" THEN analyze(t, prefs) # "none"
    ELSE analyze_decision(t, prefs, result.confidence).action # "none"

\* c is the one category the record does not disable
OnlyEnabled(prefs, c) ==
    /\ Enabled(prefs, c)
    /\ \A d \in Categories \ {c} : Disabled(prefs, d)

(***************************************************************************)
(* C1: analyze returns the fixed action of the first category, in the      *)
(* order language, sexual, violence, that is enabled and whose score       *)
(* reaches its threshold, and 'none' when there is none; so a breaching    *)
(* language category gives 'mute' whatever the other two are.              *)
(***************************************************************************)
C1_AnalyzePriority ==
    (result.op = "analyze" /\ NonEmpty(text)) =>
        result.action =
            IF Breaches(text, preferences, "language") THEN "mute"
            ELSE IF Breaches(text, preferences, "sexual") THEN "skip"
            ELSE IF Breaches(text, preferences, "violence") THEN "fast_forward"
            ELSE "none"

C1_Witness ==
    /\ result.op = "analyze"
    /\ \A c \in Categories : Breaches(text, preferences, c)
    /\ result.action = "mute"

(***************************************************************************)
(* C2: analyze_decision matches the first category, in the order sexual,   *)
(* violence, language, that is enabled and whose score reaches the         *)
(* threshold of its sensitivity, and no category when there is none.       *)
(***************************************************************************)
C2_DecisionPriority ==
    (result.op = "analyze_decision" /\ NonEmpty(text)) =>
        result.decision.matched_category =
            IF Breaches(text, preferences, "sexual") THEN "sexual"
            ELSE IF Breaches(text, preferences, "violence") THEN "violence"
            ELSE IF Breaches(text, preferences, "language") THEN "language"
            ELSE None

(***************************************************************************)
(* C3: the action and the duration of a matching decision are the row of   *)
(* the table low (mute, 5), medium (fast_forward, 10), high (skip, 15)     *)
(* that the matched category's own sensitivity selects, the medium row     *)
(* for an unrecognized or missing sensitivity.                             *)
(***************************************************************************)
C3_SensitivityTable ==
    (result.op = "analyze_decision" /\ result.decision.matched_category # None) =>
        <<result.decision.action, result.decision.duration_seconds>> =
            StatedRow(StatedSensitivity(preferences, result.decision.matched_category))

(***************************************************************************)
(* C4: a disabled category never influences the result of either entry     *)
(* point: changing or removing its sensitivity, or replacing the words     *)
(* that score for it by words that do not, leaves the result as it is;     *)
(* with all three filters off analyze returns 'none' and analyze_decision  *)
(* the no-match decision.                                                  *)
(***************************************************************************)
\* the record with field k set to v, and with field k removed
WithField(prefs, k, v) == (k :> v) @@ prefs

WithoutField(prefs, k) == [f \in DOMAIN prefs \ {k} |-> prefs[f]]

\* for a category c and a token w, a token that scores 0 for c and as w does
\* for the other two categories, when the vocabulary has one (else w itself)
SilentToken ==
    [c \in Categories |->
        [w \in Vocabulary |->
            LET silent == {v \in Vocabulary :
                              /\ Score(c, <<v>>) = 0
                              /\ \A d \in Categories \ {c} :
                                    Score(d, <<v>>) = Score(d, <<w>>)}
            IN  IF silent = {} THEN w ELSE CHOOSE v \in silent : TRUE]]

\* the text with every token replaced by its silent token for c: the text
\* as it would be if it scored (next to) nothing for c
Silenced(c, ws) == [i \in DOMAIN ws |-> SilentToken[c][ws[i]]]

C4_DisabledNeverInfluences ==
    Called =>
        /\ \A c \in Categories :
              Disabled(preferences, c) =>
                /\ \A s \in SensitivityValues :
                      Returns(text, WithField(preferences, SensitivityField(c), s))
                          = Returned
                /\ Returns(text, WithoutField(preferences, SensitivityField(c)))
                      = Returned
                /\ NonEmpty(text) =>
                      Returns(Str(Silenced(c, text.words)), preferences) = Returned
        /\ (\A c \in Categories : Disabled(preferences, c)) =>
              Returned = IF result.op = "analyze" THEN "none" ELSE NoMatchDecision

C4_Witness ==
    /\ result.op = "analyze_decision"
    /\ Disabled(preferences, "sexual")
    /\ NonEmpty(text)
    /\ Score("sexual", text.words) >= 5
    /\ result.decision.matched_category = "violence"

(***************************************************************************)
(* C5: for empty or null text analyze returns 'none' and analyze_decision  *)
(* the no-match decision, for every preference record and confidence.      *)
(***************************************************************************)
C5_EmptyTextNoMatch ==
    (Called /\ (text.kind = "None" \/ text.words = <<>>)) =>
        Returned = IF result.op = "analyze" THEN "none" ELSE NoMatchDecision

C5_Witness ==
    /\ result.op = "analyze_decision"
    /\ result.confidence # None
    /\ text = Str(<<>>)
    /\ DOMAIN preferences = {}
    /\ result.decision = NoMatchDecision

(***************************************************************************)
(* C6: whenever no category breaches its threshold, analyze_decision       *)
(* returns exactly the no-match decision, with reason 'No match' also      *)
(* when a confidence is supplied.                                          *)
(***************************************************************************)
C6_NoBreachNoMatch ==
    (result.op = "analyze_decision"
        /\ \A c \in Categories : ~Breaches(text, preferences, c)) =>
        result.decision = NoMatchDecision

(***************************************************************************)
(* C7: the threshold does not increase along low, medium, high; so with    *)
(* one category enabled and the other two disabled, a text that triggers   *)
(* at one sensitivity triggers at every higher one, in both entry points.  *)
(***************************************************************************)
SensitivityRank == [low |-> 1, medium |-> 2, high |-> 3]

\* the thresholds the engine looks up for low, medium and high do not increase
ThresholdsNonIncreasing ==
    \A k \in SensitivityFields :
        /\ Threshold([f \in {k} |-> "low"], k) >= Threshold([f \in {k} |-> "medium"], k)
        /\ Threshold([f \in {k} |-> "medium"], k) >= Threshold([f \in {k} |-> "high"], k)

C7_SensitivityMonotone ==
    /\ ThresholdsNonIncreasing
    /\ Called =>
          \A c \in Categories :
              (/\ OnlyEnabled(preferences, c)
               /\ StatedSensitivity(preferences, c) \in DOMAIN SensitivityRank
               /\ Triggered) =>
                  \A s \in DOMAIN SensitivityRank :
                      SensitivityRank[s] > SensitivityRank[StatedSensitivity(preferences, c)]
                          => TriggersWith(text,
                                 WithField(preferences, SensitivityField(c), s))

C7_Witness ==
    /\ result.op = "analyze_decision"
    /\ OnlyEnabled(preferences, "violence")
    /\ StatedSensitivity(preferences, "violence") = "low"
    /\ Triggered

(***************************************************************************)
(* C8: in both entry points an enabled category breaches exactly when its  *)
(* score is at least the threshold of its sensitivity: 5 for low, 2 for    *)
(* medium, 1 for high, 2 for an unrecognized or missing value.  With the   *)
(* other two categories disabled, the call triggers exactly then.          *)
(***************************************************************************)
C8_InclusiveThreshold ==
    (Called /\ NonEmpty(text)) =>
        \A c \in Categories :
            OnlyEnabled(preferences, c) =>
                (Triggered <=>
                    Score(c, text.words)
                        >= StatedThreshold(StatedSensitivity(preferences, c)))

(***************************************************************************)
(* C9: every decision has exactly the fields action, duration_seconds,     *)
(* matched_category and reason, an action among none, mute, skip and       *)
(* fast_forward, a duration >= 0 and a category or null; the action is     *)
(* none exactly when no category matched and exactly when the duration     *)
(* is 0.                                                                   *)
(***************************************************************************)
C9_DecisionShape ==
    result.op = "analyze_decision" =>
        LET d == result.decision
        IN  /\ DOMAIN d = {"action", "duration_seconds", "matched_category", "reason"}
            /\ d.action \in {"none", "mute", "skip", "fast_forward"}
            /\ d.duration_seconds \in Nat
            /\ d.matched_category \in Categories \cup {None}
            /\ (d.action = "none") <=> (d.matched_category = None)
            /\ (d.action = "none") <=> (d.duration_seconds = 0)

C9_Witness ==
    /\ result.op = "analyze_decision"
    /\ result.decision.matched_category = "violence"
    /\ result.decision.action = "mute"
    /\ result.decision.duration_seconds = 5

(***************************************************************************)
(* C10: for a user with the default preferences, a /event request whose    *)
(* text reaches the sexual threshold next to violence and language words   *)
(* is answered with status 200 and a body of exactly the keys action,      *)
(* duration_seconds, matched_category and reason, with matched_category    *)
(* 'sexual', action 'skip' and a positive duration.                        *)
(***************************************************************************)
\* the response answers a /event request of a default user with such a text
EventOfDefaultUser ==
    /\ response.route = "/event"
    /\ DOMAIN response.request = {"user_id", "text"}
    /\ response.request.user_id \in DOMAIN users
    /\ user_preferences[response.request.user_id] = DefaultPreferences
    /\ Breaches(response.request.text, DefaultPreferences, "sexual")
    /\ Score("violence", response.request.text.words) > 0
    /\ Score("language", response.request.text.words) > 0

C10_EventSexualSkip ==
    EventOfDefaultUser =>
        /\ response.status = 200
        /\ DOMAIN response.body =
               {"action", "duration_seconds", "matched_category", "reason"}
        /\ response.body.matched_category = "sexual"
        /\ response.body.action = "skip"
        /\ response.body.duration_seconds \in Nat \ {0}

(***************************************************************************)
(* C11: a /event request that cannot be resolved to a user is answered     *)
(* with status 200 and the no-match shape (action none, duration 0, no     *)
(* category), with reason 'Invalid request' when user_id or text is        *)
(* missing and 'Unknown user_id' when no user has the id.                  *)
(***************************************************************************)
\* the response answers a /event request that names no existing user
EventUnresolved ==
    /\ response.route = "/event"
    /\ \/ {"user_id", "text"} \ DOMAIN response.request # {}
       \/ response.request.user_id \notin DOMAIN users

C11_EventUnresolvedNoMatch ==
    EventUnresolved =>
        /\ response.status = 200
        /\ DOMAIN response.body =
               {"action", "duration_seconds", "matched_category", "reason"}
        /\ response.body.action = "none"
        /\ response.body.duration_seconds = 0
        /\ response.body.matched_category = None
        /\ response.body.reason =
               IF {"user_id", "text"} \ DOMAIN response.request # {}
               THEN "Invalid request" ELSE "Unknown user_id"

(***************************************************************************)
(* C12: every stored sensitivity of every user is low, medium or high; an  *)
(* update request of an existing user that carries any other value for a   *)
(* sensitivity field is answered with 400 and changes no stored field,     *)
(* the valid fields sent in the same request included.                     *)
(***************************************************************************)
UpdateRoute == "PUT /api/users/<id>/preferences"

StoredSensitivitiesValid ==
    \A id \in DOMAIN user_preferences :
        \A field \in SensitivityFields :
            user_preferences[id][field] \in {"low", "medium", "high"}

\* the step answers an update request of an existing user that carries an
\* unrecognized sensitivity
AnswersInvalidUpdate ==
    /\ response'.route = UpdateRoute
    /\ response'.request.user_id \in DOMAIN users
    /\ \E field \in SensitivityFields :
          /\ field \in DOMAIN response'.request.data
          /\ response'.request.data[field] \notin {"low", "medium", "high"}

C12_SensitivitiesValidated ==
    /\ []StoredSensitivitiesValid
    /\ [][AnswersInvalidUpdate =>
              /\ response'.status = 400
              /\ UNCHANGED store_vars]_vars

\* an update with an unrecognized sensitivity and a valid violence_filter
\* FALSE was answered 400, and the user's violence filter is still on
C12_Witness ==
    /\ response.route = UpdateRoute
    /\ response.status = 400
    /\ "language_sensitivity" \in DOMAIN response.request.data
    /\ response.request.data.language_sensitivity = "extreme"
    /\ response.request.data.violence_filter = FALSE
    /\ user_preferences[response.request.user_id].violence_filter = TRUE
    /\ user_preferences[response.request.user_id].language_sensitivity = "medium"

(***************************************************************************)
(* C13: in every reachable state, whatever create_user calls are in        *)
(* progress or have failed, the ids with a user row are the ids with a     *)
(* preference row; and the preference row that appears for a new user     *)
(* has all three filters enabled and all three sensitivities medium.       *)
(***************************************************************************)
RowsPaired == DOMAIN users = DOMAIN user_preferences

AllEnabledAllMedium ==
    [language_filter |-> TRUE, sexual_content_filter |-> TRUE,
     violence_filter |-> TRUE, language_sensitivity |-> "medium",
     sexual_content_sensitivity |-> "medium", violence_sensitivity |-> "medium"]

NewRowsAreDefault ==
    \A id \in DOMAIN users' \ DOMAIN users :
        /\ id \in DOMAIN user_preferences'
        /\ user_preferences'[id] = AllEnabledAllMedium

C13_PreferencesWithUser ==
    /\ []RowsPaired
    /\ [][NewRowsAreDefault]_vars

\* a creation has committed while the other caller's creation holds an
\* inserted user row without its preference row, and a creation has failed
C13_Witness ==
    /\ users # EmptyTable
    /\ connections["a"].pc = "user_inserted"
    /\ connections["b"].op = "create_user"
    /\ connections["b"].pc = "idle"
    /\ connections["b"].returned = "None"

(***************************************************************************)
(* C14: no two user rows have the same username; a create_user call that   *)
(* reaches its INSERT when the username exists returns None (the request   *)
(* is answered 409) and leaves both tables as they are; and of two         *)
(* interleaved create_user calls for the same username, new when each      *)
(* call began, exactly one returns an id.                                  *)
(***************************************************************************)
UsernamesUnique ==
    \A i, j \in DOMAIN users : users[i] = users[j] => i = j

\* caller c's step is the INSERT of a create_user call for a stored username
InsertsDuplicate(c) ==
    /\ connections[c].pc = "connected"
    /\ connections[c].op = "create_user"
    /\ connections'[c] # connections[c]
    /\ \E id \in DOMAIN users : users[id] = connections[c].username

DuplicateReturnsNone ==
    \A c \in DOMAIN connections :
        InsertsDuplicate(c) =>
            /\ connections'[c].pc = "idle"
            /\ connections'[c].returned = "None"
            /\ UNCHANGED store_vars

\* the step answers a POST /api/users for a stored username
DuplicateAnswered409 ==
    ( /\ response'.route = "/api/users"
      /\ "username" \in DOMAIN response'.request
      /\ \E id \in DOMAIN users : users[id] = response'.request.username )
        => (response'.status = 409 /\ UNCHANGED store_vars)

\* callers c and d have both finished a create_user call for one username
\* that was new when each of the two calls began
RacedForUsername(c, d) ==
    /\ c # d
    /\ \A e \in {c, d} :
          /\ connections[e].op = "create_user"
          /\ connections[e].pc = "idle"
          /\ connections[e].fresh
    /\ connections[c].username = connections[d].username

ExactlyOneSucceeds ==
    \A c, d \in DOMAIN connections :
        RacedForUsername(c, d) =>
            Cardinality({e \in {c, d} : connections[e].returned = "id"}) = 1

C14_UsernamesUnique ==
    /\ [](UsernamesUnique /\ ExactlyOneSucceeds)
    /\ [][DuplicateReturnsNone /\ DuplicateAnswered409]_vars

\* the two callers raced for one new username: a got the id, b got None
C14_Witness ==
    /\ RacedForUsername("a", "b")
    /\ connections["a"].returned = "id"
    /\ connections["b"].returned = "None"
    /\ users[connections["a"].user_id] = connections["b"].username

(***************************************************************************)
(* C15: an update_user_preferences(user_id, p) that returns True sets      *)
(* exactly the allowed fields present in p to the values of p and leaves   *)
(* the user's other fields, the other users' rows and the table users as   *)
(* they are, and get_user_preferences then returns the updated values;     *)
(* when p has none of the six allowed fields or the user has no            *)
(* preference row the call returns False and changes nothing.              *)
(***************************************************************************)
SixFields ==
    {"language_filter", "sexual_content_filter", "violence_filter",
     "language_sensitivity", "sexual_content_sensitivity", "violence_sensitivity"}

\* caller c's step ends an update_user_preferences call
EndsUpdate(c) ==
    /\ connections[c].op = "update_user_preferences"
    /\ connections[c].pc = "connected"
    /\ connections'[c].pc = "idle"

\* the effect of a True update of user_id by p, and nothing else
SetsExactly(user_id, p) ==
    /\ users' = users
    /\ DOMAIN user_preferences' = DOMAIN user_preferences
    /\ \A id \in DOMAIN user_preferences \ {user_id} :
          user_preferences'[id] = user_preferences[id]
    /\ DOMAIN user_preferences'[user_id] = DOMAIN user_preferences[user_id]
    /\ \A field \in DOMAIN user_preferences[user_id] :
          user_preferences'[user_id][field] =
              IF field \in SixFields \cap DOMAIN p THEN p[field]
              ELSE user_preferences[user_id][field]
    /\ \A field \in SixFields \cap DOMAIN p :
          get_user_preferences(user_id)'[field] = p[field]

UpdateFrame ==
    \A c \in DOMAIN connections :
        EndsUpdate(c) =>
            LET user_id == connections[c].user_id
                p == connections[c].data
            IN  IF SixFields \cap DOMAIN p = {}
                      \/ user_id \notin DOMAIN user_preferences
                THEN /\ connections'[c].returned = "False"
                     /\ UNCHANGED store_vars
                ELSE /\ connections'[c].returned = "True"
                     /\ SetsExactly(user_id, p)

C15_UpdateFrame == [][UpdateFrame]_vars

\* an update that set the violence filter and was handed a field that is
\* not allowed returned True, and the language filter and the violence
\* sensitivity that another update had set are as that update left them
C15_Witness ==
    /\ connections["a"].op = "update_user_preferences"
    /\ connections["a"].pc = "idle"
    /\ connections["a"].returned = "True"
    /\ connections["a"].data = [violence_filter |-> FALSE, theme |-> "dark"]
    /\ user_preferences[connections["a"].user_id] =
           [language_filter |-> FALSE, sexual_content_filter |-> TRUE,
            violence_filter |-> FALSE, language_sensitivity |-> "medium",
            sexual_content_sensitivity |-> "medium",
            violence_sensitivity |-> "high"]

(***************************************************************************)
(* C16: a request to /api/analyze for an existing user is answered 200     *)
(* with the action analyze gives for the text and the preference row the   *)
(* store holds for the user at that moment, so with 'none' whenever the    *)
(* row has all three filters off; the request changes neither table.       *)
(***************************************************************************)
\* the step answers a complete /api/analyze request of an existing user
AnswersAnalyze ==
    /\ response'.route = "/api/analyze"
    /\ {"user_id", "text"} \subseteq DOMAIN response'.request
    /\ response'.request.user_id \in DOMAIN users

AllFiltersOff(row) ==
    ~row.language_filter /\ ~row.sexual_content_filter /\ ~row.violence_filter

AnalyzeUsesStoredPreferences ==
    AnswersAnalyze =>
        LET row == user_preferences[response'.request.user_id]
        IN  /\ response'.status = 200
            /\ response'.body.action = analyze(response'.request.text, row)
            /\ AllFiltersOff(row) => response'.body.action = "none"
            /\ UNCHANGED store_vars

C16_AnalyzeStoredPreferences == [][AnalyzeUsesStoredPreferences]_vars

\* a text that a default user has skipped is answered 'none' for a user
\* whose three filters an update has turned off
C16_Witness ==
    /\ response.route = "/api/analyze"
    /\ response.status = 200
    /\ analyze(response.request.text, DefaultPreferences) = "skip"
    /\ AllFiltersOff(user_preferences[response.request.user_id])
    /\ response.body.action = "none"

(***************************************************************************)
(* C17: every call of analyze or analyze_decision on the shared instance,  *)
(* whatever calls it is interleaved with, returns what the same call       *)
(* returns when it runs alone; so two calls of one entry point with        *)
(* identical arguments return identical results.                           *)
(***************************************************************************)
Finished(c) == frames[c].op # "none" /\ frames[c].pc = "idle"

ReturnsAsAlone(c) ==
    IF frames[c].op = "analyze"
    THEN frames[c].action = analyze(frames[c].text, frames[c].preferences)
    ELSE frames[c].decision =
             analyze_decision(frames[c].text, frames[c].preferences,
                              frames[c].confidence)

SameArguments(c, d) ==
    /\ frames[c].op = frames[d].op
    /\ frames[c].text = frames[d].text
    /\ frames[c].preferences = frames[d].preferences
    /\ frames[c].confidence = frames[d].confidence

SameResult(c, d) ==
    IF frames[c].op = "analyze" THEN frames[c].action = frames[d].action
    ELSE frames[c].decision = frames[d].decision

C17_Stateless ==
    /\ \A c \in DOMAIN frames : Finished(c) => ReturnsAsAlone(c)
    /\ \A c, d \in DOMAIN frames :
          (Finished(c) /\ Finished(d) /\ SameArguments(c, d)) => SameResult(c, d)

\* two calls with different texts ran interleaved: a's analyze_decision
\* matched violence, b's analyze returned skip
C17_Witness ==
    /\ Finished("a") /\ Finished("b")
    /\ frames["a"].interleaved /\ frames["b"].interleaved
    /\ frames["a"].op = "analyze_decision"
    /\ frames["a"].decision.matched_category = "violence"
    /\ frames["b"].op = "analyze"
    /\ frames["b"].action = "skip"

(***************************************************************************)
(* C18: the sexual and the violence severity of a text is the sum over     *)
(* its words, lowercased, of 2 for a word that is in the category's        *)
(* keyword list and in one of its patterns, 1 for a word that is in one    *)
(* of the two only (as 'assault' is for sexual), and 0 for any other       *)
(* word, a word that merely contains a keyword included; the empty text    *)
(* scores 0.                                                               *)
(***************************************************************************)
SeqRange(s) == {s[i] : i \in DOMAIN s}

KeywordsOf(c) ==
    IF c = "sexual" THEN SeqRange(SEXUAL_KEYWORDS) ELSE SeqRange(VIOLENCE_KEYWORDS)

PatternWordsOf(c) ==
    IF c = "sexual" THEN UNION SeqRange(SEXUAL_PATTERNS)
    ELSE UNION SeqRange(VIOLENCE_PATTERNS)

\* what one occurrence of a lowercased word contributes, as stated
StatedContribution ==
    [c \in {"sexual", "violence"} |->
        [w \in {Lower(v) : v \in Vocabulary} |->
            IF w \in KeywordsOf(c) /\ w \in PatternWordsOf(c) THEN 2
            ELSE IF w \in KeywordsOf(c) \/ w \in PatternWordsOf(c) THEN 1
            ELSE 0]]

RECURSIVE StatedSeverity(_, _)
StatedSeverity(c, ws) ==
    IF ws = <<>> THEN 0
    ELSE StatedContribution[c][Lower(Head(ws))] + StatedSeverity(c, Tail(ws))

\* the contributions the statement names
NamedContributions ==
    /\ Score("sexual", <<"SEX">>) = 2
    /\ Score("sexual", <<"assault">>) = 1
    /\ Score("violence", <<"assault">>) = 2
    /\ Score("sexual", <<"skills">>) = 0
    /\ Score("violence", <<"skills">>) = 0
    /\ Score("sexual", <<>>) = 0
    /\ Score("violence", <<>>) = 0

C18_SeverityIsSum ==
    (Called /\ text.kind = "str") =>
        /\ \A c \in {"sexual", "violence"} :
              Score(c, text.words) = StatedSeverity(c, text.words)
        /\ NamedContributions

\* a call on a text with a word of both lists, a pattern-only word and a
\* word that contains a keyword
C18_Witness ==
    /\ Called
    /\ text = Str(<<"SEX", "assault", "skills">>)
    /\ Score("sexual", text.words) = 3
    /\ Score("violence", text.words) = 2

(***************************************************************************)
(* C19: for every text and every preference record, analyze returns        *)
(* 'none' if and only if analyze_decision returns the action 'none'.       *)
(***************************************************************************)
C19_EntryPointsAgree ==
    Called =>
        ( (analyze(text, preferences) = "none")
            <=> (analyze_decision(text, preferences, None).action = "none") )

====
